---- MODULE Spec2Model ----
(***************************************************************************)
(* Model of the ICM-20948 register-level driver (src/src/icm20948.c).      *)
(*                                                                         *)
(* The driver keeps two file-scope objects, dev (the injected transport    *)
(* functions, the cached register bank and the register shadows) and       *)
(* settings.  Its four public functions run to completion one at a time;   *)
(* each is one action here.  The device behind the transport is modelled   *)
(* as a small register file (chip) decoded by bank and address, and the    *)
(* injected read/write primitives as an oracle that says which transaction *)
(* of a call fails and with which status.                                  *)
(***************************************************************************)
EXTENDS Integers, Sequences, FiniteSets, TLC

VARIABLES
    intf,           \* dev.intf: which of read / write / delay_us are non-NULL
    reg_bank_sel,   \* dev.usr_bank.reg_bank_sel: the cached register bank
    settings,       \* the stored icm20948_settings_t
    chip,           \* the device: selected bank and register contents
    usr_bank,       \* dev.usr_bank.bank0 / bank2: the register shadows
    call,           \* the last public call: name, status, bus log, output
    pre,            \* reg_bank_sel and chip.bank as they were when it began
    ncalls          \* the number of public calls made so far

vars == <<intf, reg_bank_sel, usr_bank, settings, chip, call, pre, ncalls>>

(***************************************************************************)
(* Return codes (icm20948_return_code_t).                                  *)
(***************************************************************************)
ICM20948_RET_OK         == "ICM20948_RET_OK"
ICM20948_RET_GEN_FAIL   == "ICM20948_RET_GEN_FAIL"
ICM20948_RET_NULL_PTR   == "ICM20948_RET_NULL_PTR"
ICM20948_RET_INV_CONFIG == "ICM20948_RET_INV_CONFIG"
ICM20948_RET_TIMEOUT    == "ICM20948_RET_TIMEOUT"

\* What a call through a NULL function pointer leaves in ret when the call
\* never comes back (a trap): no enumerator of the driver.
TRAP == "TRAP"

\* The statuses a failing injected primitive reports: any status of the
\* enumeration but success.  The driver passes each on as it is, also the
\* ones it produces itself.
TransportFailures ==
    {ICM20948_RET_GEN_FAIL, ICM20948_RET_INV_CONFIG, ICM20948_RET_NULL_PTR,
     ICM20948_RET_TIMEOUT}

\* Outcomes of a call through a NULL pointer (undefined behaviour): the
\* program traps, or control comes back with an arbitrary status.
NullCallOutcomes == {TRAP, ICM20948_RET_GEN_FAIL}

(***************************************************************************)
(* Register map (icm20948.h; values of the vendor's register map).         *)
(***************************************************************************)
ICM20948_USER_BANK_0 == 0
ICM20948_USER_BANK_2 == 2

ICM20948_WHO_AM_I_DEFAULT == 234    \* 0xEA

ICM20948_ADDR_REG_BANK_SEL       == 127   \* 0x7F, every bank
ICM20948_ADDR_WHO_AM_I           == 0     \* bank 0
ICM20948_ADDR_PWR_MGMT_1         == 6     \* bank 0
ICM20948_ADDR_PWR_MGMT_2         == 7     \* bank 0
ICM20948_ADDR_ACCEL_XOUT_H       == 45    \* 0x2D, bank 0
ICM20948_ADDR_GYRO_XOUT_H        == 51    \* 0x33, bank 0
ICM20948_ADDR_GYRO_SMPLRT_DIV    == 0     \* bank 2
ICM20948_ADDR_GYRO_CONFIG_1      == 1     \* bank 2
ICM20948_ADDR_ACCEL_SMPLRT_DIV_1 == 16    \* 0x10, bank 2
ICM20948_ADDR_ACCEL_SMPLRT_DIV_2 == 17    \* 0x11, bank 2
ICM20948_ADDR_ACCEL_CONFIG       == 20    \* 0x14, bank 2

Regs == {"REG_BANK_SEL", "WHO_AM_I", "PWR_MGMT_1", "PWR_MGMT_2",
         "ACCEL_XOUT_H", "GYRO_XOUT_H", "GYRO_SMPLRT_DIV", "GYRO_CONFIG_1",
         "ACCEL_SMPLRT_DIV_1", "ACCEL_SMPLRT_DIV_2", "ACCEL_CONFIG"}

\* The address the driver passes for a register.
AddrOf(reg) ==
    CASE reg = "REG_BANK_SEL"       -> ICM20948_ADDR_REG_BANK_SEL
      [] reg = "WHO_AM_I"           -> ICM20948_ADDR_WHO_AM_I
      [] reg = "PWR_MGMT_1"         -> ICM20948_ADDR_PWR_MGMT_1
      [] reg = "PWR_MGMT_2"         -> ICM20948_ADDR_PWR_MGMT_2
      [] reg = "ACCEL_XOUT_H"       -> ICM20948_ADDR_ACCEL_XOUT_H
      [] reg = "GYRO_XOUT_H"        -> ICM20948_ADDR_GYRO_XOUT_H
      [] reg = "GYRO_SMPLRT_DIV"    -> ICM20948_ADDR_GYRO_SMPLRT_DIV
      [] reg = "GYRO_CONFIG_1"      -> ICM20948_ADDR_GYRO_CONFIG_1
      [] reg = "ACCEL_SMPLRT_DIV_1" -> ICM20948_ADDR_ACCEL_SMPLRT_DIV_1
      [] reg = "ACCEL_SMPLRT_DIV_2" -> ICM20948_ADDR_ACCEL_SMPLRT_DIV_2
      [] reg = "ACCEL_CONFIG"       -> ICM20948_ADDR_ACCEL_CONFIG

\* The bank that owns a banked register (REG_BANK_SEL is in every bank).
BankOf(reg) ==
    IF reg \in {"WHO_AM_I", "PWR_MGMT_1", "PWR_MGMT_2", "ACCEL_XOUT_H", "GYRO_XOUT_H"}
    THEN ICM20948_USER_BANK_0
    ELSE ICM20948_USER_BANK_2

(***************************************************************************)
(* Bytes and bit fields.                                                   *)
(***************************************************************************)
Pow2(n) == 2 ^ n

\* The value of the width-bit field of byte b that starts at bit lsb.
GetField(b, lsb, width) == (b \div Pow2(lsb)) % Pow2(width)

\* Byte b with that field set to v (v truncated to the field's width).
SetField(b, lsb, width, v) ==
    b - GetField(b, lsb, width) * Pow2(lsb) + (v % Pow2(width)) * Pow2(lsb)

\* PWR_MGMT_1: CLKSEL [2:0], SLEEP [6], DEVICE_RESET [7].
\* PWR_MGMT_2: DISABLE_GYRO [2:0], DISABLE_ACCEL [5:3].
\* GYRO_CONFIG_1: GYRO_FCHOICE [0], GYRO_FS_SEL [2:1], GYRO_DLPFCFG [5:3].
\* ACCEL_CONFIG: ACCEL_FCHOICE [0], ACCEL_FS_SEL [2:1], ACCEL_DLPFCFG [5:3].
\* ACCEL_SMPLRT_DIV_1: ACCEL_SMPLRT_DIV [3:0].
Field(name) ==
    CASE name = "CLKSEL"           -> [lsb |-> 0, width |-> 3]
      [] name = "SLEEP"            -> [lsb |-> 6, width |-> 1]
      [] name = "DEVICE_RESET"     -> [lsb |-> 7, width |-> 1]
      [] name = "DISABLE_GYRO"     -> [lsb |-> 0, width |-> 3]
      [] name = "DISABLE_ACCEL"    -> [lsb |-> 3, width |-> 3]
      [] name = "GYRO_FCHOICE"     -> [lsb |-> 0, width |-> 1]
      [] name = "GYRO_FS_SEL"      -> [lsb |-> 1, width |-> 2]
      [] name = "GYRO_DLPFCFG"     -> [lsb |-> 3, width |-> 3]
      [] name = "ACCEL_FCHOICE"    -> [lsb |-> 0, width |-> 1]
      [] name = "ACCEL_FS_SEL"     -> [lsb |-> 1, width |-> 2]
      [] name = "ACCEL_DLPFCFG"    -> [lsb |-> 3, width |-> 3]
      [] name = "ACCEL_SMPLRT_DIV" -> [lsb |-> 0, width |-> 4]

Bits(b, name) == GetField(b, Field(name).lsb, Field(name).width)
WithBits(b, name, v) == SetField(b, Field(name).lsb, Field(name).width, v)

(***************************************************************************)
(* The device.  A register is reached through its address in the bank      *)
(* that is selected on the device at that moment; the bank-select register *)
(* answers in every bank.  Only the registers whose content the driver     *)
(* reads are stored; any other register reads as zero and a write to it    *)
(* changes nothing that is stored.                                         *)
(***************************************************************************)
ChipReg(c, a) ==
    IF a = ICM20948_ADDR_REG_BANK_SEL THEN c.bank
    ELSE IF c.bank # ICM20948_USER_BANK_0 THEN 0
    ELSE IF a = ICM20948_ADDR_WHO_AM_I THEN c.WHO_AM_I
    ELSE IF a = ICM20948_ADDR_PWR_MGMT_2 THEN c.PWR_MGMT_2
    ELSE IF a \in ICM20948_ADDR_ACCEL_XOUT_H .. (ICM20948_ADDR_ACCEL_XOUT_H + 5)
         THEN c.ACCEL_OUT[a - ICM20948_ADDR_ACCEL_XOUT_H + 1]
    ELSE IF a \in ICM20948_ADDR_GYRO_XOUT_H .. (ICM20948_ADDR_GYRO_XOUT_H + 5)
         THEN c.GYRO_OUT[a - ICM20948_ADDR_GYRO_XOUT_H + 1]
    ELSE 0

\* A burst read of len bytes from address a (the address auto-increments).
ChipRead(c, a, len) == [i \in 1 .. len |-> ChipReg(c, a + i - 1)]

\* A one-byte write to address a.
ChipWrite(c, a, b) ==
    IF a = ICM20948_ADDR_REG_BANK_SEL THEN [c EXCEPT !.bank = b]
    ELSE IF c.bank # ICM20948_USER_BANK_0 THEN c
    ELSE IF a = ICM20948_ADDR_PWR_MGMT_2 THEN [c EXCEPT !.PWR_MGMT_2 = b]
    ELSE c

(***************************************************************************)
(* The injected primitives.  An oracle o fixes, for one public call, which *)
(* transaction (counted from 1) the primitive fails and with which status; *)
(* every other transaction succeeds.  A failed transaction leaves the      *)
(* device and the caller's buffer untouched.                               *)
(***************************************************************************)
Outcome(o, k) == IF k = o.failAt THEN o.failSt ELSE ICM20948_RET_OK

\* addr | (0x01 << 7)
ReadFlag(addr) == IF (addr \div 128) % 2 = 1 THEN addr ELSE addr + 128

\* The address a device decodes from the address byte on the wire.
WireReg(addr) == addr % 128

\* A call through a NULL function pointer: no transaction reaches the bus.
NullCall(m, rw, reg, o) ==
    [m EXCEPT !.bus = Append(@, [rw |-> rw, reg |-> reg, addr |-> AddrOf(reg),
                                 data |-> <<>>, st |-> o.ub,
                                 bank |-> m.chip.bank, null |-> TRUE]),
              !.ret = o.ub]

\* dev.intf.read(addr, data, len) as the caller supplied it.
IntfRead(m, addr, reg, buf, o) ==
    LET st == Outcome(o, Len(m.bus) + 1)
        rx == IF st = ICM20948_RET_OK
              THEN ChipRead(m.chip, WireReg(addr), Len(buf))
              ELSE buf
    IN  [m EXCEPT !.bus = Append(@, [rw |-> "R", reg |-> reg, addr |-> addr,
                                     data |-> rx, st |-> st,
                                     bank |-> m.chip.bank, null |-> FALSE]),
                  !.rx = rx,
                  !.ret = st]

\* dev.intf.write(addr, data, len) as the caller supplied it (len is 1).
IntfWrite(m, addr, reg, data, o) ==
    LET st == Outcome(o, Len(m.bus) + 1)
    IN  [m EXCEPT !.bus = Append(@, [rw |-> "W", reg |-> reg, addr |-> addr,
                                     data |-> data, st |-> st,
                                     bank |-> m.chip.bank, null |-> FALSE]),
                  !.chip = IF st = ICM20948_RET_OK
                           THEN ChipWrite(@, WireReg(addr), data[1])
                           ELSE @,
                  !.ret = st]

(***************************************************************************)
(* The transport adapter.  m is the program state inside a public call:    *)
(* the file-scope objects, the device, the log of the call's transactions  *)
(* (bus), the handler's local ret, the bytes the last read put in its      *)
(* buffer (rx; the buffer's old content buf when nothing was stored) and   *)
(* the output struct the caller passed (out).                              *)
(***************************************************************************)
\* The read adapter that passes the address on as it is.
_spi_read_NoFlag(m, reg, buf, o) ==
    IF ~m.intf.read
    THEN [NullCall(m, "R", reg, o) EXCEPT !.rx = buf]
    ELSE IntfRead(m, AddrOf(reg), reg, buf, o)

_spi_read(m, reg, buf, o) ==
    IF ~m.intf.read
    THEN [NullCall(m, "R", reg, o) EXCEPT !.rx = buf]
    ELSE IntfRead(m, ReadFlag(AddrOf(reg)), reg, buf, o)

_spi_write(m, reg, data, o) ==
    IF ~m.intf.write
    THEN NullCall(m, "W", reg, o)
    ELSE IntfWrite(m, AddrOf(reg), reg, data, o)

(***************************************************************************)
(* Settings values (icm20948_api.h).                                       *)
(***************************************************************************)
ICM20948_GYRO_DISABLE  == "ICM20948_GYRO_DISABLE"
ICM20948_GYRO_ENABLE   == "ICM20948_GYRO_ENABLE"
ICM20948_ACCEL_DISABLE == "ICM20948_ACCEL_DISABLE"
ICM20948_ACCEL_ENABLE  == "ICM20948_ACCEL_ENABLE"

SettingsValues ==
    [gyro_en : {ICM20948_GYRO_DISABLE, ICM20948_GYRO_ENABLE},
     accel_en : {ICM20948_ACCEL_DISABLE, ICM20948_ACCEL_ENABLE}]

(***************************************************************************)
(* icm20948_init                                                           *)
(***************************************************************************)
\* The NULL check with the delay function forgotten.
InitCheckPointers_NoDelay(r, w, delay) ==
    IF (~r) \/ (~w) THEN ICM20948_RET_NULL_PTR ELSE ICM20948_RET_OK

\* Lines 73-80: the NULL check only sets ret.
InitCheckPointers(r, w, delay) ==
    IF (~r) \/ (~w) \/ (~delay) THEN ICM20948_RET_NULL_PTR ELSE ICM20948_RET_OK

\* Lines 96-109: zero the shadow, read WHO_AM_I, compare.
InitReadIdentity(m, o) ==
    LET z  == [m EXCEPT !.bank0.WHO_AM_I = 0]
        rd == _spi_read(z, "WHO_AM_I", <<z.bank0.WHO_AM_I>>, o)
        st == [rd EXCEPT !.bank0.WHO_AM_I = rd.rx[1]]
    IN  IF st.ret = ICM20948_RET_OK
        THEN IF st.bank0.WHO_AM_I # ICM20948_WHO_AM_I_DEFAULT
             THEN [st EXCEPT !.ret = ICM20948_RET_GEN_FAIL]
             ELSE st
        ELSE st

\* The clock step that writes the shadow without composing it.
InitClock_Blank(m, o) ==
    _spi_write(m, "PWR_MGMT_1", <<m.bank0.PWR_MGMT_1>>, o)

\* Lines 111-117: compose PWR_MGMT_1 in the shadow and write it.
InitClock(m, o) ==
    LET b == WithBits(WithBits(WithBits(m.bank0.PWR_MGMT_1,
                 "CLKSEL", 1), "SLEEP", 0), "DEVICE_RESET", 0)
    IN  _spi_write([m EXCEPT !.bank0.PWR_MGMT_1 = b], "PWR_MGMT_1", <<b>>, o)

icm20948_init(m0, r, w, delay, o) ==
    LET m1 == [m0 EXCEPT !.ret = InitCheckPointers(r, w, delay),
                         !.intf = [read |-> r, write |-> w, delay_us |-> delay],
                         !.reg_bank_sel = ICM20948_USER_BANK_0]
        m2 == IF m1.ret = ICM20948_RET_OK
              THEN _spi_write(m1, "REG_BANK_SEL", <<m1.reg_bank_sel>>, o)
              ELSE m1
        m3 == IF m2.ret = ICM20948_RET_OK THEN InitReadIdentity(m2, o) ELSE m2
    IN  IF m3.ret = ICM20948_RET_OK THEN InitClock(m3, o) ELSE m3

(***************************************************************************)
(* icm20948_applySettings                                                  *)
(***************************************************************************)
\* The bank-select block without the comparison with the cache.
SelectBank_Always(m, bank, o) ==
    IF m.ret = ICM20948_RET_OK
    THEN _spi_write([m EXCEPT !.reg_bank_sel = bank], "REG_BANK_SEL", <<bank>>, o)
    ELSE m

\* The bank-select block that opens every branch (lines 135-140, 159-164,
\* 181-186, 211-216, 246-251, 289-294): the cache is set, then written.
SelectBank(m, bank, o) ==
    IF (m.reg_bank_sel # bank) /\ (m.ret = ICM20948_RET_OK)
    THEN _spi_write([m EXCEPT !.reg_bank_sel = bank], "REG_BANK_SEL", <<bank>>, o)
    ELSE m

\* Lines 133-155.
GyroEnable(m, o) ==
    LET a == SelectBank(m, ICM20948_USER_BANK_2, o)
        b == IF a.ret = ICM20948_RET_OK
             THEN LET v == WithBits(WithBits(WithBits(a.bank2.GYRO_CONFIG_1,
                               "GYRO_FS_SEL", 0), "GYRO_FCHOICE", 1), "GYRO_DLPFCFG", 5)
                  IN  _spi_write([a EXCEPT !.bank2.GYRO_CONFIG_1 = v],
                                 "GYRO_CONFIG_1", <<v>>, o)
             ELSE a
    IN  IF b.ret = ICM20948_RET_OK
        THEN _spi_write([b EXCEPT !.bank2.GYRO_SMPLRT_DIV = 10],
                        "GYRO_SMPLRT_DIV", <<10>>, o)
        ELSE b

\* The disable sequence without the read: the field is set in the shadow as
\* it stands and the shadow is written.
DisableSensor_Blind(m, field, o) ==
    IF m.ret = ICM20948_RET_OK
    THEN LET v == WithBits(m.bank0.PWR_MGMT_2, field, 7)
         IN  _spi_write([m EXCEPT !.bank0.PWR_MGMT_2 = v], "PWR_MGMT_2", <<v>>, o)
    ELSE m

\* Lines 166-176 and 218-228: read PWR_MGMT_2 into the shadow, set one
\* disable field to 0b111, write the shadow back.
DisableSensor(m, field, o) ==
    LET a == IF m.ret = ICM20948_RET_OK
             THEN LET rd == _spi_read(m, "PWR_MGMT_2", <<m.bank0.PWR_MGMT_2>>, o)
                  IN  [rd EXCEPT !.bank0.PWR_MGMT_2 = rd.rx[1]]
             ELSE m
    IN  IF a.ret = ICM20948_RET_OK
        THEN LET v == WithBits(a.bank0.PWR_MGMT_2, field, 7)
             IN  _spi_write([a EXCEPT !.bank0.PWR_MGMT_2 = v], "PWR_MGMT_2", <<v>>, o)
        ELSE a

\* Lines 156-177.
GyroDisable(m, o) ==
    DisableSensor(SelectBank(m, ICM20948_USER_BANK_0, o), "DISABLE_GYRO", o)

\* Lines 179-207.
AccelEnable(m, o) ==
    LET a == SelectBank(m, ICM20948_USER_BANK_2, o)
        b == IF a.ret = ICM20948_RET_OK
             THEN LET v == WithBits(WithBits(WithBits(a.bank2.ACCEL_CONFIG,
                               "ACCEL_FS_SEL", 1), "ACCEL_FCHOICE", 1), "ACCEL_DLPFCFG", 5)
                  IN  _spi_write([a EXCEPT !.bank2.ACCEL_CONFIG = v],
                                 "ACCEL_CONFIG", <<v>>, o)
             ELSE a
        c == IF b.ret = ICM20948_RET_OK
             THEN LET v == WithBits(b.bank2.ACCEL_SMPLRT_DIV_1, "ACCEL_SMPLRT_DIV", 0)
                  IN  _spi_write([b EXCEPT !.bank2.ACCEL_SMPLRT_DIV_1 = v],
                                 "ACCEL_SMPLRT_DIV_1", <<v>>, o)
             ELSE b
    IN  IF c.ret = ICM20948_RET_OK
        THEN _spi_write([c EXCEPT !.bank2.ACCEL_SMPLRT_DIV_2 = 10],
                        "ACCEL_SMPLRT_DIV_2", <<10>>, o)
        ELSE c

\* Lines 208-229.
AccelDisable(m, o) ==
    DisableSensor(SelectBank(m, ICM20948_USER_BANK_0, o), "DISABLE_ACCEL", o)

\* ApplySettings with a status of its own for the accel branch.
applySettings_AccelRegardless(m0, newSettings, o) ==
    LET m1 == [m0 EXCEPT !.ret = ICM20948_RET_OK, !.settings = newSettings]
        g  == IF m1.settings.gyro_en = ICM20948_GYRO_ENABLE
              THEN GyroEnable(m1, o)
              ELSE GyroDisable(m1, o)
        h  == IF g.ret = TRAP THEN g ELSE [g EXCEPT !.ret = ICM20948_RET_OK]
    IN  IF h.settings.accel_en = ICM20948_ACCEL_ENABLE
        THEN AccelEnable(h, o)
        ELSE AccelDisable(h, o)

\* ApplySettings that puts the old settings back when a transaction failed.
applySettings_RollBack(m0, newSettings, o) ==
    LET m1 == [m0 EXCEPT !.ret = ICM20948_RET_OK, !.settings = newSettings]
        g  == IF m1.settings.gyro_en = ICM20948_GYRO_ENABLE
              THEN GyroEnable(m1, o)
              ELSE GyroDisable(m1, o)
        a  == IF g.settings.accel_en = ICM20948_ACCEL_ENABLE
              THEN AccelEnable(g, o)
              ELSE AccelDisable(g, o)
    IN  IF a.ret \in {ICM20948_RET_OK, TRAP}
        THEN a
        ELSE [a EXCEPT !.settings = m0.settings]

\* ApplySettings with the accel branch ahead of the gyro branch.
applySettings_AccelFirst(m0, newSettings, o) ==
    LET m1 == [m0 EXCEPT !.ret = ICM20948_RET_OK, !.settings = newSettings]
        a  == IF m1.settings.accel_en = ICM20948_ACCEL_ENABLE
              THEN AccelEnable(m1, o)
              ELSE AccelDisable(m1, o)
    IN  IF a.settings.gyro_en = ICM20948_GYRO_ENABLE
        THEN GyroEnable(a, o)
        ELSE GyroDisable(a, o)

icm20948_applySettings(m0, newSettings, o) ==
    LET m1 == [m0 EXCEPT !.ret = ICM20948_RET_OK, !.settings = newSettings]
        g  == IF m1.settings.gyro_en = ICM20948_GYRO_ENABLE
              THEN GyroEnable(m1, o)
              ELSE GyroDisable(m1, o)
    IN  IF g.settings.accel_en = ICM20948_ACCEL_ENABLE
        THEN AccelEnable(g, o)
        ELSE AccelDisable(g, o)

(***************************************************************************)
(* Sample decoding.  The axis fields of icm20948_gyro_t / icm20948_accel_t *)
(* are signed 16-bit; C's / and % truncate toward zero.                    *)
(***************************************************************************)
\* Storing a value of 0 .. 65535 into an int16_t field.
ToInt16(v) == IF v % 65536 >= 32768 THEN (v % 65536) - 65536 ELSE v % 65536

\* C's a / b and a % b for b > 0.
CDiv(a, b) == IF a >= 0 THEN a \div b ELSE -((-a) \div b)
CMod(a, b) == a - b * CDiv(a, b)

\* XOUT_L | (XOUT_H << 8), lines 260-262 and 303-305.
RawWord(hi, lo) == ToInt16(lo + hi * 256)

\* The gyro scaling with a division that rounds down.
GyroScale_Floor(x) == ToInt16(x \div 250)

\* Lines 264-266.
GyroScale(x) == ToInt16(CDiv(x, 250))

\* The accel scaling with a remainder that is never negative.
AccelScale_Floor(x) == ToInt16(CDiv(x, 16) - (CDiv(x, 16) % 50))

\* The accel scaling without the quantisation to multiples of 50.
AccelScale_Plain(x) == ToInt16(CDiv(x, 16))

\* Lines 310-312.
AccelScale(x) == ToInt16(CDiv(x, 16) - CMod(CDiv(x, 16), 50))

\* The three axes of a six-byte burst <<XH, XL, YH, YL, ZH, ZL>>.
GyroDecode(b) ==
    <<GyroScale(RawWord(b[1], b[2])), GyroScale(RawWord(b[3], b[4])),
      GyroScale(RawWord(b[5], b[6]))>>

AccelDecode(b) ==
    <<AccelScale(RawWord(b[1], b[2])), AccelScale(RawWord(b[3], b[4])),
      AccelScale(RawWord(b[5], b[6]))>>

\* Lines 268-273 and 314-319.
Sentinel == <<99, 99, 99>>

(***************************************************************************)
(* icm20948_getGyroData / icm20948_getAccelData.  m.out is the struct the  *)
(* caller passed; a call that trapped never reaches the stores into it.    *)
(***************************************************************************)
\* The gyro read with the bank selected before the enable check.
getGyroData_SelectFirst(m0, o) ==
    LET m1 == SelectBank([m0 EXCEPT !.ret = ICM20948_RET_OK], ICM20948_USER_BANK_0, o)
        m2 == IF m1.ret = ICM20948_RET_OK /\ m1.settings.gyro_en # ICM20948_GYRO_ENABLE
              THEN [m1 EXCEPT !.ret = ICM20948_RET_INV_CONFIG]
              ELSE m1
        m3 == IF m2.ret = ICM20948_RET_OK
              THEN LET rd == _spi_read(m2, "GYRO_XOUT_H", m2.bank0.GYRO_OUT, o)
                   IN  [rd EXCEPT !.bank0.GYRO_OUT = rd.rx]
              ELSE m2
    IN  IF m3.ret = ICM20948_RET_OK
        THEN [m3 EXCEPT !.out = GyroDecode(m3.bank0.GYRO_OUT)]
        ELSE IF m3.ret = TRAP THEN m3
        ELSE [m3 EXCEPT !.out = Sentinel]

icm20948_getGyroData(m0, o) ==
    LET m1 == [m0 EXCEPT !.ret = IF m0.settings.gyro_en # ICM20948_GYRO_ENABLE
                                 THEN ICM20948_RET_INV_CONFIG
                                 ELSE ICM20948_RET_OK]
        m2 == SelectBank(m1, ICM20948_USER_BANK_0, o)
        m3 == IF m2.ret = ICM20948_RET_OK
              THEN LET rd == _spi_read(m2, "GYRO_XOUT_H", m2.bank0.GYRO_OUT, o)
                   IN  [rd EXCEPT !.bank0.GYRO_OUT = rd.rx]
              ELSE m2
    IN  IF m3.ret = ICM20948_RET_OK
        THEN [m3 EXCEPT !.out = GyroDecode(m3.bank0.GYRO_OUT)]
        ELSE IF m3.ret = TRAP THEN m3
        ELSE [m3 EXCEPT !.out = Sentinel]

\* The accel read that returns from the enable check and from a failed
\* transaction without storing into the output.
getAccelData_EarlyReturn(m0, o) ==
    LET m1 == [m0 EXCEPT !.ret = IF m0.settings.accel_en # ICM20948_ACCEL_ENABLE
                                 THEN ICM20948_RET_INV_CONFIG
                                 ELSE ICM20948_RET_OK]
        m2 == SelectBank(m1, ICM20948_USER_BANK_0, o)
        m3 == IF m2.ret = ICM20948_RET_OK
              THEN LET rd == _spi_read(m2, "ACCEL_XOUT_H", m2.bank0.ACCEL_OUT, o)
                   IN  [rd EXCEPT !.bank0.ACCEL_OUT = rd.rx]
              ELSE m2
    IN  IF m3.ret = ICM20948_RET_OK
        THEN [m3 EXCEPT !.out = AccelDecode(m3.bank0.ACCEL_OUT)]
        ELSE m3

icm20948_getAccelData(m0, o) ==
    LET m1 == [m0 EXCEPT !.ret = IF m0.settings.accel_en # ICM20948_ACCEL_ENABLE
                                 THEN ICM20948_RET_INV_CONFIG
                                 ELSE ICM20948_RET_OK]
        m2 == SelectBank(m1, ICM20948_USER_BANK_0, o)
        m3 == IF m2.ret = ICM20948_RET_OK
              THEN LET rd == _spi_read(m2, "ACCEL_XOUT_H", m2.bank0.ACCEL_OUT, o)
                   IN  [rd EXCEPT !.bank0.ACCEL_OUT = rd.rx]
              ELSE m2
    IN  IF m3.ret = ICM20948_RET_OK
        THEN [m3 EXCEPT !.out = AccelDecode(m3.bank0.ACCEL_OUT)]
        ELSE IF m3.ret = TRAP THEN m3
        ELSE [m3 EXCEPT !.out = Sentinel]

(***************************************************************************)
(* The state machine: one action per public function.                      *)
(***************************************************************************)
\* The oracles of a call: the transaction that fails is one of ks, or none
\* fails; ubs are the outcomes of the call's calls through NULL, one value
\* where it makes none.
Oracles(ks, ubs) ==
    {[failAt |-> k, failSt |-> s, ub |-> u] :
        k \in ks, s \in TransportFailures, u \in ubs}
    \cup
    {[failAt |-> 0, failSt |-> ICM20948_RET_OK, ub |-> u] : u \in ubs}

\* No transaction fails.
NoFailure == [failAt |-> 0, failSt |-> ICM20948_RET_OK, ub |-> TRAP]

\* Every place a transaction of a call can fail: icm20948_init issues at
\* most 3 transactions, icm20948_applySettings 7, a sample read 2.
InitFailures == 1 .. 3
ApplyFailures == 1 .. 7
GetFailures == 1 .. 2

\* A call goes through a NULL pointer only when read or write is NULL.
UbOutcomes(r, w) == IF r /\ w THEN {TRAP} ELSE NullCallOutcomes

\* The register shadows of the zero-initialised dev.  They are kept from
\* call to call: a buffer handed to a read that fails holds what an earlier
\* call left in it.
Bank0Shadow ==
    [WHO_AM_I |-> 0, PWR_MGMT_1 |-> 0, PWR_MGMT_2 |-> 0,
     GYRO_OUT |-> <<0, 0, 0, 0, 0, 0>>, ACCEL_OUT |-> <<0, 0, 0, 0, 0, 0>>]

Bank2Shadow ==
    [GYRO_SMPLRT_DIV |-> 0, GYRO_CONFIG_1 |-> 0, ACCEL_SMPLRT_DIV_1 |-> 0,
     ACCEL_SMPLRT_DIV_2 |-> 0, ACCEL_CONFIG |-> 0]

\* What the caller's output struct holds before a call stores into it.
Untouched == <<0, 0, 0>>

\* The program state on entry to a public call.
MachineOf(i, b, u, s, c) ==
    [intf |-> i, reg_bank_sel |-> b, bank0 |-> u.bank0, bank2 |-> u.bank2,
     settings |-> s, chip |-> c, bus |-> <<>>, ret |-> ICM20948_RET_OK,
     rx |-> <<>>, out |-> Untouched]

Machine == MachineOf(intf, reg_bank_sel, usr_bank, settings, chip)

\* The runs explored make at most MaxCalls public calls.
MaxCalls == 3

\* The program state when the call named op is over.
Return(m, op) ==
    /\ ncalls < MaxCalls
    /\ ncalls' = ncalls + 1
    /\ intf' = m.intf
    /\ reg_bank_sel' = m.reg_bank_sel
    /\ usr_bank' = [bank0 |-> m.bank0, bank2 |-> m.bank2]
    /\ settings' = m.settings
    /\ chip' = m.chip
    /\ call' = [op |-> op, ret |-> m.ret, bus |-> m.bus, out |-> m.out]
    /\ pre' = [reg_bank_sel |-> reg_bank_sel, bank |-> chip.bank]

\* A program that trapped makes no further call.
Running == call.ret # TRAP

\* The API is used as documented: icm20948_init comes first.
Initialised == call.op # "none"

\* The (read, write, delay) arguments a caller passes: TRUE is a function,
\* FALSE is NULL.
AnyFns == BOOLEAN \X BOOLEAN \X BOOLEAN
ValidFns == {<<TRUE, TRUE, TRUE>>}

Initialize(fns, ks) ==
    /\ Running
    /\ \E f \in fns :
          \E o \in Oracles(ks, UbOutcomes(f[1], f[2])) :
             Return(icm20948_init(Machine, f[1], f[2], f[3], o), "init")

ApplySettings(ks) ==
    /\ Running /\ Initialised
    /\ \E s \in SettingsValues, o \in Oracles(ks, UbOutcomes(intf.read, intf.write)) :
          Return(icm20948_applySettings(Machine, s, o), "applySettings")

GetGyroData(ks) ==
    /\ Running /\ Initialised
    /\ \E o \in Oracles(ks, UbOutcomes(intf.read, intf.write)) :
          Return(icm20948_getGyroData(Machine, o), "getGyroData")

GetAccelData(ks) ==
    /\ Running /\ Initialised
    /\ \E o \in Oracles(ks, UbOutcomes(intf.read, intf.write)) :
          Return(icm20948_getAccelData(Machine, o), "getAccelData")

Next ==
    \/ Initialize(AnyFns, InitFailures)
    \/ ApplySettings(ApplyFailures)
    \/ GetGyroData(GetFailures)
    \/ GetAccelData(GetFailures)

(***************************************************************************)
(* Initial states: the file-scope objects are zero-initialised (NULL       *)
(* functions, bank 0, settings disabled); the device is in any of the      *)
(* given states.                                                           *)
(***************************************************************************)
\* Device output registers <<XH, XL, YH, YL, ZH, ZL>>: the raw words 250,
\* -250 and 24750.
GyroSample == <<0, 250, 255, 6, 96, 174>>

\* Raw words 1616, -1616 and 800.
AccelSample == <<6, 80, 249, 176, 3, 32>>

ChipStates(banks, ids, pwr2, gs, as) ==
    [bank : banks, WHO_AM_I : ids, PWR_MGMT_2 : pwr2, GYRO_OUT : gs, ACCEL_OUT : as]

InitWith(chips) ==
    /\ intf = [read |-> FALSE, write |-> FALSE, delay_us |-> FALSE]
    /\ reg_bank_sel = ICM20948_USER_BANK_0
    /\ usr_bank = [bank0 |-> Bank0Shadow, bank2 |-> Bank2Shadow]
    /\ settings = [gyro_en |-> ICM20948_GYRO_DISABLE, accel_en |-> ICM20948_ACCEL_DISABLE]
    /\ chip \in chips
    /\ call = [op |-> "none", ret |-> ICM20948_RET_OK, bus |-> <<>>, out |-> Untouched]
    /\ pre = [reg_bank_sel |-> reg_bank_sel, bank |-> chip.bank]
    /\ ncalls = 0

\* A device after power-up: bank 0, both sensors on; the right identity, or
\* another one.
Init ==
    InitWith(ChipStates({ICM20948_USER_BANK_0}, {ICM20948_WHO_AM_I_DEFAULT, 0},
                        {0}, {GyroSample}, {AccelSample}))

Spec == Init /\ [][Next]_vars

(***************************************************************************)
(* The same program with a caller that passes three functions: every       *)
(* transaction reaches the bus, and may fail.                              *)
(***************************************************************************)
NextBus ==
    \/ Initialize(ValidFns, InitFailures)
    \/ ApplySettings(ApplyFailures)
    \/ GetGyroData(GetFailures)
    \/ GetAccelData(GetFailures)

SpecBus == Init /\ [][NextBus]_vars

(***************************************************************************)
(* The same program with a transport that never fails and a caller that    *)
(* passes three functions.  PWR_MGMT_2 starts with both sensors on, or     *)
(* with the reserved bits set.                                             *)
(***************************************************************************)
InitOk ==
    InitWith(ChipStates({ICM20948_USER_BANK_0}, {ICM20948_WHO_AM_I_DEFAULT},
                        {0, 64, 128, 192}, {GyroSample}, {AccelSample}))

NextOk ==
    \/ Initialize(ValidFns, {})
    \/ ApplySettings({})
    \/ GetGyroData({})
    \/ GetAccelData({})

SpecOk == InitOk /\ [][NextOk]_vars

(***************************************************************************)
(* Initialisation against every identity byte a device can answer with.    *)
(***************************************************************************)
InitId ==
    InitWith(ChipStates({ICM20948_USER_BANK_0}, 0 .. 255,
                        {0}, {GyroSample}, {AccelSample}))

NextId == Initialize(ValidFns, InitFailures)

SpecId == InitId /\ [][NextId]_vars

(***************************************************************************)
(* Settings applied to a device whose PWR_MGMT_2 holds any byte.           *)
(***************************************************************************)
InitPwr ==
    InitWith(ChipStates({ICM20948_USER_BANK_0}, {ICM20948_WHO_AM_I_DEFAULT},
                        0 .. 255, {GyroSample}, {AccelSample}))

NextPwr ==
    \/ Initialize(ValidFns, {})
    \/ ApplySettings({})

SpecPwr == InitPwr /\ [][NextPwr]_vars

(***************************************************************************)
(* Sample reads of every 16-bit word.  The runs start where a program is   *)
(* after icm20948_init and icm20948_applySettings with both sensors        *)
(* enabled have succeeded, on a device whose X output registers hold the   *)
(* bytes (h, l), whose Y registers hold (l, h) and whose Z registers hold  *)
(* their complements: each axis sees all 65536 byte pairs.                 *)
(***************************************************************************)
BothEnabled == [gyro_en |-> ICM20948_GYRO_ENABLE, accel_en |-> ICM20948_ACCEL_ENABLE]

AxisBytes(h, l) == <<h, l, l, h, 255 - h, 255 - l>>

\* The program state after a call without failure, as a call's entry state.
After(m) == MachineOf(m.intf, m.reg_bank_sel, [bank0 |-> m.bank0, bank2 |-> m.bank2],
                      m.settings, m.chip)

InitConv ==
    \E h \in 0 .. 255, l \in 0 .. 255 :
       \E c0 \in ChipStates({ICM20948_USER_BANK_0}, {ICM20948_WHO_AM_I_DEFAULT}, {0},
                            {AxisBytes(h, l)}, {AxisBytes(h, l)}) :
          \E m1 \in {icm20948_init(
                        MachineOf([read |-> FALSE, write |-> FALSE, delay_us |-> FALSE],
                                  ICM20948_USER_BANK_0,
                                  [bank0 |-> Bank0Shadow, bank2 |-> Bank2Shadow],
                                  [gyro_en |-> ICM20948_GYRO_DISABLE,
                                   accel_en |-> ICM20948_ACCEL_DISABLE], c0),
                        TRUE, TRUE, TRUE, NoFailure)} :
             \E m2 \in {icm20948_applySettings(After(m1), BothEnabled, NoFailure)} :
                /\ intf = m2.intf
                /\ reg_bank_sel = m2.reg_bank_sel
                /\ usr_bank = [bank0 |-> m2.bank0, bank2 |-> m2.bank2]
                /\ settings = m2.settings
                /\ chip = m2.chip
                /\ call = [op |-> "applySettings", ret |-> m2.ret, bus |-> m2.bus,
                           out |-> m2.out]
                /\ pre = [reg_bank_sel |-> m1.reg_bank_sel, bank |-> m1.chip.bank]
                /\ ncalls = 2

NextConv == GetGyroData({}) \/ GetAccelData({})

SpecConv == InitConv /\ [][NextConv]_vars

(***************************************************************************)
(* Sample reads of a device whose three axes hold the same word, for every *)
(* 16-bit word: the runs start as those of SpecConv do.                    *)
(***************************************************************************)
EqualAxes(h, l) == <<h, l, h, l, h, l>>

InitSame ==
    \E h \in 0 .. 255, l \in 0 .. 255 :
       \E c0 \in ChipStates({ICM20948_USER_BANK_0}, {ICM20948_WHO_AM_I_DEFAULT}, {0},
                            {EqualAxes(h, l)}, {EqualAxes(h, l)}) :
          \E m1 \in {icm20948_init(
                        MachineOf([read |-> FALSE, write |-> FALSE, delay_us |-> FALSE],
                                  ICM20948_USER_BANK_0,
                                  [bank0 |-> Bank0Shadow, bank2 |-> Bank2Shadow],
                                  [gyro_en |-> ICM20948_GYRO_DISABLE,
                                   accel_en |-> ICM20948_ACCEL_DISABLE], c0),
                        TRUE, TRUE, TRUE, NoFailure)} :
             \E m2 \in {icm20948_applySettings(After(m1), BothEnabled, NoFailure)} :
                /\ intf = m2.intf
                /\ reg_bank_sel = m2.reg_bank_sel
                /\ usr_bank = [bank0 |-> m2.bank0, bank2 |-> m2.bank2]
                /\ settings = m2.settings
                /\ chip = m2.chip
                /\ call = [op |-> "applySettings", ret |-> m2.ret, bus |-> m2.bus,
                           out |-> m2.out]
                /\ pre = [reg_bank_sel |-> m1.reg_bank_sel, bank |-> m1.chip.bank]
                /\ ncalls = 2

NextSame == GetGyroData({}) \/ GetAccelData({})

SpecSame == InitSame /\ [][NextSame]_vars

(***************************************************************************)
(* Properties.  They read the record of the last call: its status, the     *)
(* log of its transactions (each with the bank the device had selected     *)
(* when it was issued) and the state before it.                            *)
(***************************************************************************)
Bus == call.bus

IsSelect(e) == e.reg = "REG_BANK_SEL"

SampleCalls == {"getGyroData", "getAccelData"}

\* The places of the bank-select writes in the last call.
Selects == {i \in DOMAIN Bus : IsSelect(Bus[i])}

\* C1: every read or write of a banked register is issued while the bank
\* selected on the device is the bank that owns the register.
C1_RegisterInOwningBank ==
    \A i \in DOMAIN Bus :
       ((~Bus[i].null) /\ ~IsSelect(Bus[i])) => Bus[i].bank = BankOf(Bus[i].reg)

\* The cached bank before the last transaction of the call: the bank of the
\* call's previous bank-select write, or the cache the call began with.
CacheBeforeLast ==
    LET earlier == {i \in Selects : i < Len(Bus)}
    IN  IF earlier = {} THEN pre.reg_bank_sel
        ELSE Bus[CHOOSE i \in earlier : \A j \in earlier : j <= i].data[1]

\* C2: when the bank-select write of ApplySettings, GetGyroData or
\* GetAccelData fails, the cached bank is what it was before that write;
\* and the cached bank always equals the bank selected on the device, the
\* value last written with success.
C2_CacheKeptOnFailedSelect ==
    /\ (/\ call.op \in SampleCalls \cup {"applySettings"}
        /\ Bus # <<>>
        /\ ~Bus[Len(Bus)].null
        /\ IsSelect(Bus[Len(Bus)])
        /\ Bus[Len(Bus)].st # ICM20948_RET_OK)
       => reg_bank_sel = CacheBeforeLast
    /\ (call.op \in SampleCalls \cup {"applySettings"} /\ pre.reg_bank_sel = pre.bank)
       => reg_bank_sel = chip.bank

\* C3: in Initialize and ApplySettings a failed transaction is the last one
\* of the call, and the call returns that transaction's status.
C3_FirstFailureEndsCall ==
    call.op \in {"init", "applySettings"} =>
       \A k \in DOMAIN Bus :
          Bus[k].st # ICM20948_RET_OK => (k = Len(Bus) /\ call.ret = Bus[k].st)

\* ApplySettings with the accel enabled whose gyro branch failed at the
\* gyro configuration write, with the second failure status.
C3_Witness ==
    /\ call.op = "applySettings"
    /\ settings = BothEnabled
    /\ Bus # <<>>
    /\ Bus[Len(Bus)].reg = "GYRO_CONFIG_1"
    /\ ~Bus[Len(Bus)].null
    /\ Bus[Len(Bus)].st = ICM20948_RET_INV_CONFIG
    /\ call.ret = ICM20948_RET_INV_CONFIG

\* C4: a sample read of a sensor that the stored settings do not enable
\* returns ICM20948_RET_INV_CONFIG, issues no transaction and leaves the
\* cached bank as it was.
C4_DisabledSensorNoTraffic ==
    /\ (call.op = "getGyroData" /\ settings.gyro_en # ICM20948_GYRO_ENABLE)
       => (/\ call.ret = ICM20948_RET_INV_CONFIG
           /\ Bus = <<>>
           /\ reg_bank_sel = pre.reg_bank_sel)
    /\ (call.op = "getAccelData" /\ settings.accel_en # ICM20948_ACCEL_ENABLE)
       => (/\ call.ret = ICM20948_RET_INV_CONFIG
           /\ Bus = <<>>
           /\ reg_bank_sel = pre.reg_bank_sel)

\* A gyro read refused while the cached bank is bank 2.
C4_Witness ==
    /\ call.op = "getGyroData"
    /\ settings.gyro_en # ICM20948_GYRO_ENABLE
    /\ pre.reg_bank_sel = ICM20948_USER_BANK_2
    /\ intf.read /\ intf.write
    /\ call.ret = ICM20948_RET_INV_CONFIG

\* The places of the PWR_MGMT_2 writes in the last call.
PwrWrites == {i \in DOMAIN Bus : Bus[i].reg = "PWR_MGMT_2" /\ Bus[i].rw = "W"}

\* Byte w is byte r with bits [2:0] set and bits [7:3] kept.
OnlyGyroDisabled(r, w) == w % 8 = 7 /\ w \div 8 = r \div 8

\* Byte w is byte r with bits [5:3] set and bits [2:0] and [7:6] kept.
OnlyAccelDisabled(r, w) ==
    (w \div 8) % 8 = 7 /\ w % 8 = r % 8 /\ w \div 64 = r \div 64

\* C5: every PWR_MGMT_2 write of ApplySettings directly follows a successful
\* PWR_MGMT_2 read, and the byte written is the byte read with only the
\* disable field of the sensor being disabled changed, to 0b111.
C5_ReadModifyWrite ==
    call.op = "applySettings" =>
       \A i \in PwrWrites :
          /\ i > 1
          /\ Bus[i - 1].reg = "PWR_MGMT_2"
          /\ Bus[i - 1].rw = "R"
          /\ Bus[i - 1].st = ICM20948_RET_OK
          /\ IF settings.gyro_en # ICM20948_GYRO_ENABLE /\ (\A j \in PwrWrites : j >= i)
             THEN OnlyGyroDisabled(Bus[i - 1].data[1], Bus[i].data[1])
             ELSE OnlyAccelDisabled(Bus[i - 1].data[1], Bus[i].data[1])

\* Both sensors disabled in one call on a device whose PWR_MGMT_2 held 0xC0:
\* the writes carry 0xC7, then 0xFF.
C5_Witness ==
    /\ call.op = "applySettings"
    /\ call.ret = ICM20948_RET_OK
    /\ settings.gyro_en # ICM20948_GYRO_ENABLE
    /\ settings.accel_en # ICM20948_ACCEL_ENABLE
    /\ Cardinality(PwrWrites) = 2
    /\ \E i \in PwrWrites, j \in PwrWrites :
          i < j /\ Bus[i - 1].data[1] = 192 /\ Bus[i].data[1] = 199
                /\ Bus[j - 1].data[1] = 199 /\ Bus[j].data[1] = 255
    /\ chip.PWR_MGMT_2 = 255

\* C6: with no failing transport call, a bank-select write is issued only
\* to a bank other than the one selected, it is followed by an access to a
\* register of the bank it selects, two consecutive accesses to registers
\* of one bank have no bank-select write between them, and ApplySettings
\* enabling both sensors issues at most one.
C6_SelectOnlyOnBankChange ==
    call.op \in SampleCalls \cup {"applySettings"} =>
       /\ \A i \in Selects :
             /\ Bus[i].data[1] # Bus[i].bank
             /\ i < Len(Bus)
             /\ ~IsSelect(Bus[i + 1])
             /\ BankOf(Bus[i + 1].reg) = Bus[i].data[1]
             /\ i > 1 => BankOf(Bus[i - 1].reg) # BankOf(Bus[i + 1].reg)
       /\ settings = BothEnabled => Cardinality(Selects) <= 1

\* ApplySettings enabling both sensors from bank 0: one bank-select write
\* and the five configuration writes.
C6_Witness ==
    /\ call.op = "applySettings"
    /\ settings = BothEnabled
    /\ pre.bank = ICM20948_USER_BANK_0
    /\ Selects = {1}
    /\ Len(Bus) = 6

\* C7 as amended: Initialize returns ICM20948_RET_NULL_PTR without a
\* transaction exactly when one of the three functions is NULL; when it
\* returns ICM20948_RET_NULL_PTR with the three functions present, that is
\* the status its last transaction reported.
C7_NullPointerWithoutTransaction ==
    call.op = "init" =>
       /\ ~(intf.read /\ intf.write /\ intf.delay_us)
             <=> (call.ret = ICM20948_RET_NULL_PTR /\ Bus = <<>>)
       /\ (call.ret = ICM20948_RET_NULL_PTR /\ Bus # <<>>)
             => Bus[Len(Bus)].st = ICM20948_RET_NULL_PTR

\* C7: Initialize returns ICM20948_RET_NULL_PTR exactly when one of the
\* three functions is NULL, and then issues no transaction.
C7_NullPointerIff ==
    call.op = "init" =>
       /\ (call.ret = ICM20948_RET_NULL_PTR)
             <=> ~(intf.read /\ intf.write /\ intf.delay_us)
       /\ call.ret = ICM20948_RET_NULL_PTR => Bus = <<>>

\* Initialize given read and write but no delay function.
C7_Witness ==
    /\ call.op = "init"
    /\ intf.read /\ intf.write /\ ~intf.delay_us
    /\ call.ret = ICM20948_RET_NULL_PTR
    /\ Bus = <<>>

\* Initialize with three functions, a bank-select write and an identity read
\* that succeed, and an identity byte that is not the expected one.
IdentityMismatch ==
    /\ call.op = "init"
    /\ intf.read /\ intf.write /\ intf.delay_us
    /\ Len(Bus) >= 2
    /\ Bus[1].st = ICM20948_RET_OK
    /\ Bus[2].reg = "WHO_AM_I"
    /\ Bus[2].st = ICM20948_RET_OK
    /\ Bus[2].data[1] # ICM20948_WHO_AM_I_DEFAULT

\* C8: on an identity mismatch Initialize returns an error of a kind of its
\* own, not the status of a failed transport call, and issues no write
\* after the identity read.
C8_MismatchHasOwnStatus ==
    IdentityMismatch =>
       /\ call.ret # ICM20948_RET_OK
       /\ call.ret # ICM20948_RET_GEN_FAIL
       /\ Len(Bus) = 2

\* The signed 16-bit value of the byte pair (hi, lo).
Signed16(hi, lo) == IF hi >= 128 THEN hi * 256 + lo - 65536 ELSE hi * 256 + lo

\* q is x / d rounded toward zero (d > 0).
IsTruncatedQuotient(q, x, d) ==
    /\ x >= 0 => (0 <= x - d * q /\ x - d * q < d)
    /\ x < 0 => (-d < x - d * q /\ x - d * q <= 0)

\* The raw word of axis a (1, 2, 3) in a device's six output bytes.
AxisWord(bytes, a) == Signed16(bytes[2 * a - 1], bytes[2 * a])

\* C9: with the gyro enabled and no failing transport call GetGyroData
\* succeeds, and each axis is the signed 16-bit word of the device's
\* (high, low) bytes divided by 250, rounded toward zero.
C9_GyroAxisIsWordOver250 ==
    (/\ call.op = "getGyroData"
     /\ settings.gyro_en = ICM20948_GYRO_ENABLE
     /\ \A i \in DOMAIN Bus : Bus[i].st = ICM20948_RET_OK)
    => /\ call.ret = ICM20948_RET_OK
       /\ \A a \in 1 .. 3 :
             IsTruncatedQuotient(call.out[a], AxisWord(chip.GYRO_OUT, a), 250)

\* A gyro read of the X bytes (0x80, 0x00), the word -32768: -131.
C9_Witness ==
    /\ call.op = "getGyroData"
    /\ call.ret = ICM20948_RET_OK
    /\ chip.GYRO_OUT[1] = 128 /\ chip.GYRO_OUT[2] = 0
    /\ call.out[1] = -131

\* raw / 16 in C.
Quot16(raw) == IF raw >= 0 THEN raw \div 16 ELSE -((-raw) \div 16)

AccelSucceeded ==
    /\ call.op = "getAccelData"
    /\ settings.accel_en = ICM20948_ACCEL_ENABLE
    /\ call.ret = ICM20948_RET_OK

\* C10: each axis GetAccelData returns is raw / 16 floored to a multiple of
\* 50: a multiple of 50 that is <= raw / 16 and less than 50 below it.
C10_AccelAxisIsFloor ==
    AccelSucceeded =>
       \A a \in 1 .. 3 :
          LET q == Quot16(AxisWord(chip.ACCEL_OUT, a))
              v == call.out[a]
          IN  v % 50 = 0 /\ v <= q /\ q - v < 50

\* C10 as amended: each axis is raw / 16 rounded toward zero to a multiple
\* of 50: a multiple of 50 between 0 and raw / 16 and less than 50 from it.
C10_AccelAxisIsTruncation ==
    AccelSucceeded =>
       \A a \in 1 .. 3 :
          LET q == Quot16(AxisWord(chip.ACCEL_OUT, a))
              v == call.out[a]
          IN  v % 50 = 0 /\ IsTruncatedQuotient(v \div 50, q, 50)

\* An accel read of the X bytes (0xF9, 0xB0), the word -1616: -100.
C10_Witness ==
    /\ AccelSucceeded
    /\ chip.ACCEL_OUT[1] = 249 /\ chip.ACCEL_OUT[2] = 176
    /\ call.out[1] = -100

\* C11: a sample read that returns with a status other than success leaves
\* exactly (99, 99, 99) in the output, whatever made it fail.
C11_FailureYieldsSentinel ==
    (call.op \in SampleCalls /\ call.ret \notin {ICM20948_RET_OK, TRAP})
       => call.out = <<99, 99, 99>>

\* An accel read whose bank-select write went through and whose sample read
\* failed.
C11_Witness ==
    /\ call.op = "getAccelData"
    /\ Len(Bus) = 2
    /\ IsSelect(Bus[1]) /\ Bus[1].st = ICM20948_RET_OK
    /\ Bus[2].reg = "ACCEL_XOUT_H" /\ ~Bus[2].null
    /\ Bus[2].st = ICM20948_RET_GEN_FAIL
    /\ call.ret = ICM20948_RET_GEN_FAIL
    /\ call.out = <<99, 99, 99>>

\* C12: every call to the injected read primitive carries the register's
\* address with bit 7 set and bits 6..0 unchanged, every call to the
\* injected write primitive carries the register's address itself, and the
\* status a primitive reports is the status the driver goes on with: a
\* failure is the status of the call.
C12_AddressAndStatusPassedOn ==
    \A i \in DOMAIN Bus :
       ~Bus[i].null =>
          /\ Bus[i].rw = "R" =>
                /\ Bus[i].addr \in 128 .. 255
                /\ Bus[i].addr - 128 = AddrOf(Bus[i].reg) % 128
          /\ Bus[i].rw = "W" => Bus[i].addr = AddrOf(Bus[i].reg)
          /\ Bus[i].st # ICM20948_RET_OK => call.ret = Bus[i].st

\* A gyro read: the bank-select write goes to 0x7F, the sample read to
\* 0x33 | 0x80 = 0xB3.
C12_Witness ==
    /\ call.op = "getGyroData"
    /\ call.ret = ICM20948_RET_OK
    /\ Len(Bus) = 2
    /\ Bus[1].rw = "W" /\ Bus[1].addr = 127
    /\ Bus[2].rw = "R" /\ Bus[2].addr = 179

\* The bus log b holds a transaction on register reg.
Accesses(b, reg) == \E i \in DOMAIN b : b[i].reg = reg

\* The bus log b holds a transaction on register reg that succeeded.
Completes(b, reg) ==
    \E i \in DOMAIN b : b[i].reg = reg /\ b[i].st = ICM20948_RET_OK

\* The last call was an ApplySettings that began the gyro-enable sequence:
\* its first transaction selects bank 2 or writes the gyro configuration.
GyroEnableBegun ==
    /\ call.op = "applySettings"
    /\ Bus # <<>>
    /\ \/ (IsSelect(Bus[1]) /\ Bus[1].data = <<ICM20948_USER_BANK_2>>)
       \/ Bus[1].reg = "GYRO_CONFIG_1"

\* The last call was an ApplySettings whose gyro-enable (accel-enable)
\* sequence ran to its last write with no failure.
GyroEnableDone == call.op = "applySettings" /\ Completes(Bus, "GYRO_SMPLRT_DIV")
AccelEnableDone == call.op = "applySettings" /\ Completes(Bus, "ACCEL_SMPLRT_DIV_2")

\* C13: a GetGyroData (GetAccelData) that follows an ApplySettings call
\* issues a sample read only if that call's gyro-enable (accel-enable)
\* sequence completed without a transport failure.
C13_ReadOnlyAfterCompletedEnable ==
    [][/\ (call.op = "applySettings" /\ call'.op = "getGyroData"
              /\ Accesses(call'.bus, "GYRO_XOUT_H")) => GyroEnableDone
       /\ (call.op = "applySettings" /\ call'.op = "getAccelData"
              /\ Accesses(call'.bus, "ACCEL_XOUT_H")) => AccelEnableDone]_vars

\* C13 as amended: GetGyroData (GetAccelData) issues a sample read only if
\* the stored settings mark the sensor enabled; only ApplySettings changes
\* the stored settings; and an ApplySettings call that began the gyro-enable
\* sequence leaves the gyro marked enabled, also when the call failed.
C13_ReadOnlyWhenMarkedEnabled ==
    [][/\ (call'.op = "getGyroData" /\ Accesses(call'.bus, "GYRO_XOUT_H"))
             => settings.gyro_en = ICM20948_GYRO_ENABLE
       /\ (call'.op = "getAccelData" /\ Accesses(call'.bus, "ACCEL_XOUT_H"))
             => settings.accel_en = ICM20948_ACCEL_ENABLE
       /\ call'.op # "applySettings" => settings' = settings
       /\ GyroEnableBegun' => settings'.gyro_en = ICM20948_GYRO_ENABLE]_vars

\* An ApplySettings call that failed at the gyro configuration write and
\* left the gyro marked enabled.
C13_Witness ==
    /\ GyroEnableBegun
    /\ ~GyroEnableDone
    /\ call.ret = ICM20948_RET_GEN_FAIL
    /\ Bus[Len(Bus)].reg = "GYRO_CONFIG_1"
    /\ settings.gyro_en = ICM20948_GYRO_ENABLE

\* C14: after a successful ApplySettings the device agrees with the stored
\* settings: the disable field in the device's PWR_MGMT_2 of a sensor the
\* call enabled is not 0b111.
C14_EnabledSensorIsOn ==
    (call.op = "applySettings" /\ call.ret = ICM20948_RET_OK) =>
       /\ settings.gyro_en = ICM20948_GYRO_ENABLE
             => chip.PWR_MGMT_2 % 8 # 7
       /\ settings.accel_en = ICM20948_ACCEL_ENABLE
             => (chip.PWR_MGMT_2 \div 8) % 8 # 7

\* C15: no call dispatches through an absent transport function, and an
\* Initialize that returns ICM20948_RET_NULL_PTR leaves the cached bank as
\* it was.
C15_NoAbsentFunctionCalled ==
    /\ \A i \in DOMAIN Bus : ~Bus[i].null
    /\ (call.op = "init" /\ call.ret = ICM20948_RET_NULL_PTR)
          => reg_bank_sel = pre.reg_bank_sel

\* The transactions of a branch, each as <<direction, register, bank>>
\* (bank: the bank a bank-select write carries, -1 elsewhere).
GyroEnablePlan == << <<"W", "GYRO_CONFIG_1", -1>>, <<"W", "GYRO_SMPLRT_DIV", -1>> >>
AccelEnablePlan ==
    << <<"W", "ACCEL_CONFIG", -1>>, <<"W", "ACCEL_SMPLRT_DIV_1", -1>>,
       <<"W", "ACCEL_SMPLRT_DIV_2", -1>> >>
DisablePlan == << <<"R", "PWR_MGMT_2", -1>>, <<"W", "PWR_MGMT_2", -1>> >>

\* A branch that needs bank b, entered with the cached bank c: the
\* bank-select write, if any, comes first.
BranchPlan(c, b, plan) ==
    IF c # b THEN << <<"W", "REG_BANK_SEL", b>> >> \o plan ELSE plan

\* The transactions of an ApplySettings call with settings s entered with
\* the cached bank c, when none fails: the gyro branch, then the accel
\* branch.
ApplyPlan(s, c) ==
    LET gb == IF s.gyro_en = ICM20948_GYRO_ENABLE THEN 2 ELSE 0
        ab == IF s.accel_en = ICM20948_ACCEL_ENABLE THEN 2 ELSE 0
    IN  BranchPlan(c, gb, IF gb = 2 THEN GyroEnablePlan ELSE DisablePlan)
        \o BranchPlan(gb, ab, IF ab = 2 THEN AccelEnablePlan ELSE DisablePlan)

\* The last call's transactions in the same form.
BusPlan ==
    [i \in DOMAIN Bus |->
        <<Bus[i].rw, Bus[i].reg, IF IsSelect(Bus[i]) THEN Bus[i].data[1] ELSE -1>>]

\* C16: the transactions of an ApplySettings call are the gyro branch's
\* followed by the accel branch's, one branch of each pair, each branch's
\* bank-select write ahead of its register accesses and the enable paths'
\* writes in the order configuration, divider(s): all of them when the call
\* succeeds, and up to the failed one when it fails.
C16_GyroBranchThenAccelBranch ==
    call.op = "applySettings" =>
       LET plan == ApplyPlan(settings, pre.reg_bank_sel)
       IN  /\ Len(Bus) <= Len(plan)
           /\ \A i \in DOMAIN Bus : BusPlan[i] = plan[i]
           /\ call.ret = ICM20948_RET_OK => Len(Bus) = Len(plan)
           /\ call.ret # ICM20948_RET_OK =>
                 (Bus # <<>> /\ Bus[Len(Bus)].st # ICM20948_RET_OK)

\* The gyro disabled and the accel enabled in one call entered with bank 2
\* cached: select 0, read and write PWR_MGMT_2, select 2, three writes.
C16_Witness ==
    /\ call.op = "applySettings"
    /\ call.ret = ICM20948_RET_OK
    /\ settings.gyro_en = ICM20948_GYRO_DISABLE
    /\ settings.accel_en = ICM20948_ACCEL_ENABLE
    /\ pre.reg_bank_sel = ICM20948_USER_BANK_2
    /\ Len(Bus) = 7
    /\ Selects = {1, 4}

\* C17: a successful Initialize issues three transactions: the write of
\* bank 0 to REG_BANK_SEL, the read of WHO_AM_I, and the write of a
\* PWR_MGMT_1 byte with CLKSEL (bits 2:0) = 1, SLEEP (bit 6) = 0 and
\* DEVICE_RESET (bit 7) = 0.
C17_InitIssuesThreeTransactions ==
    (call.op = "init" /\ call.ret = ICM20948_RET_OK) =>
       /\ Len(Bus) = 3
       /\ Bus[1].rw = "W" /\ Bus[1].reg = "REG_BANK_SEL" /\ Bus[1].data = <<0>>
       /\ Bus[2].rw = "R" /\ Bus[2].reg = "WHO_AM_I"
       /\ Bus[3].rw = "W" /\ Bus[3].reg = "PWR_MGMT_1"
       /\ Len(Bus[3].data) = 1
       /\ Bus[3].data[1] % 8 = 1
       /\ (Bus[3].data[1] \div 64) % 2 = 0
       /\ (Bus[3].data[1] \div 128) % 2 = 0

\* A repeated Initialize, begun while the device had bank 2 selected.
C17_Witness ==
    /\ call.op = "init"
    /\ call.ret = ICM20948_RET_OK
    /\ pre.bank = ICM20948_USER_BANK_2
    /\ Len(Bus) = 3
    /\ Bus[1].bank = ICM20948_USER_BANK_2
    /\ Bus[2].bank = ICM20948_USER_BANK_0
    /\ Bus[3].data = <<1>>

\* The last call was a sample read that returned success.
SampleSucceeded == call.op \in SampleCalls /\ call.ret = ICM20948_RET_OK

\* C18: no sample read that returns success yields (99, 99, 99).
C18_SuccessNeverYieldsSentinel ==
    SampleSucceeded => call.out # <<99, 99, 99>>

\* C18 as amended: a successful GetAccelData never yields (99, 99, 99),
\* each axis being a multiple of 50; a successful GetGyroData yields
\* (99, 99, 99) exactly when each of the three raw words is in
\* 24750 .. 24999.
C18_SentinelOnlyFromGyroWords ==
    SampleSucceeded =>
       /\ call.op = "getAccelData" =>
             (call.out # <<99, 99, 99>> /\ \A a \in 1 .. 3 : call.out[a] % 50 = 0)
       /\ call.op = "getGyroData" =>
             (call.out = <<99, 99, 99>>
                <=> \A a \in 1 .. 3 : AxisWord(chip.GYRO_OUT, a) \in 24750 .. 24999)

\* A successful gyro read of the bytes (0x60, 0xAE), the word 24750, on
\* each axis.
C18_Witness ==
    /\ call.op = "getGyroData"
    /\ call.ret = ICM20948_RET_OK
    /\ chip.GYRO_OUT = <<96, 174, 96, 174, 96, 174>>
    /\ call.out = <<99, 99, 99>>

====
